---- MODULE Spec2Model ----
(***************************************************************************)
(* Model of the content-fetching layer of the React app:                   *)
(* src/react-app/src/api/usePersistedQueries.js.                           *)
(*                                                                         *)
(* Three hook instances are modelled, one per exported hook: usePageBySlug *)
(* ("page"), useArticleBySlug ("article") and useArticles ("articles").    *)
(* Each instance owns React state {data, references, error}; an effect     *)
(* starts one fetchData() per mount and per change of slugName.  A         *)
(* fetchData() call first awaits fetchPersistedQuery (which awaits the     *)
(* AEM client) and then calls the state setters.  These are two steps:     *)
(* the client call settles and fetchPersistedQuery returns, and later the  *)
(* awaiting fetchData resumes; renders, effects and the continuations of   *)
(* other fetches can run in between.                                       *)
(*                                                                         *)
(* JavaScript values are tagged records: undefined, null, strings,         *)
(* content objects and arrays.                                             *)
(***************************************************************************)
EXTENDS Integers, Sequences, FiniteSets, TLC

VARIABLES mounted, slugName, state, fetches, continuations, search, last,
          slugChanges, props, rendered

\* The hooks' variables; slugChanges counts the re-renders of a hook with a
\* changed slug.  continuations is the queue of fetchData calls whose
\* fetchPersistedQuery has returned and that have not resumed yet.
hookVars == <<mounted, slugName, state, fetches, continuations, search, last,
              slugChanges>>

\* The Text component's variables: the props of its last render and the
\* element that render returned.
textVars == <<props, rendered>>

vars == <<mounted, slugName, state, fetches, continuations, search, last,
          slugChanges, props, rendered>>

----------------------------------------------------------------------------
(* Bounds *)

\* Total number of fetch cycles (runPersistedQuery calls) over all hook
\* instances of a page.
MaxCalls == 2

\* Number of fetch cycles of a hook instance that is alone on its page.
MaxCycles == 3

----------------------------------------------------------------------------
(* JavaScript values *)

Undefined == [t |-> "undefined"]

Null == [t |-> "null"]

Str(s) == [t |-> "string", v |-> s]

Arr(seq) == [t |-> "array", v |-> seq]

\* JavaScript truthiness of the values that reach an if-condition here.
Truthy(v) ==
    /\ v.t # "undefined"
    /\ v.t # "null"
    /\ (v.t = "string" => v.v # "")

\* a?.b with a possibly undefined or null
IsNullish(v) == v.t = "undefined" \/ v.t = "null"

----------------------------------------------------------------------------
(* The hook instances and their inputs *)

Hooks == {"page", "article", "articles"}

SlugHooks == {"page", "article"}

\* Slugs a route can hand to a slug hook.
Slugs == {"a", "b"}

\* useArticles takes no slug; its slot in slugName holds this placeholder.
NoSlug == ""

\* Values of the "variation" query-string parameter: absent (null from
\* URLSearchParams.get), present but empty, present.
Variations == {Null, Str(""), Str("mobile")}

\* Messages a client exception can carry.
Messages == {Undefined, Str(""), Str("Network Error")}

----------------------------------------------------------------------------
(* What the AEM client (aemHeadlessClient.runPersistedQuery) can do *)

\* A content fragment stored for a slug; n tells apart several matches.
Item(slug, n) == [t |-> "object", slug |-> slug, n |-> n]

\* The _references mapping delivered with a page.
References(slug) == [t |-> "object", slug |-> slug, n |-> 0]

\* An edge of the article list.
Edge(n) == [t |-> "object", slug |-> NoSlug, n |-> n]

\* <kind>List of a by-slug payload: absent, without items, or with 0, 1, 2 items.
SlugLists(slug) ==
    {Undefined}
    \cup {[t |-> "list", items |-> Undefined, _references |-> Undefined]}
    \cup {[t |-> "list", items |-> Arr(<<>>), _references |-> r] :
            r \in {References(slug)}}
    \cup {[t |-> "list", items |-> Arr(<<Item(slug, 1)>>), _references |-> r] :
            r \in {Undefined, References(slug)}}
    \cup {[t |-> "list", items |-> Arr(<<Item(slug, 1), Item(slug, 2)>>),
           _references |-> r] : r \in {References(slug)}}

\* articlePaginated of the list payload: absent, without edges, or 0, 1, 2 edges.
EdgeLists ==
    {Undefined}
    \cup {[t |-> "list", edges |-> e] :
            e \in {Undefined, Arr(<<>>), Arr(<<Edge(1)>>), Arr(<<Edge(2), Edge(1)>>)}}

\* The payloads (the response's data field) a query of hook h can deliver.
Payloads(h, slug) ==
    IF h = "articles"
    THEN {[t |-> "payload", list |-> l] : l \in EdgeLists}
    ELSE {[t |-> "payload", list |-> l] : l \in SlugLists(slug)}

\* Values the client's promise can resolve to: nothing, an envelope without
\* a data field, an envelope with a payload.
Responses(h, slug) ==
    {Undefined}
    \cup {[t |-> "response", data |-> d] : d \in {Undefined} \cup Payloads(h, slug)}

\* Values the client can throw: one without a toJSON method (a plain Error),
\* one whose toJSON() returns null, one whose toJSON() returns {message}.
Exceptions ==
    {[t |-> "exception", hasToJSON |-> FALSE, json |-> Undefined]}
    \cup {[t |-> "exception", hasToJSON |-> TRUE, json |-> Null]}
    \cup {[t |-> "exception", hasToJSON |-> TRUE,
           json |-> [t |-> "object", message |-> m]] : m \in Messages}

\* Every way the awaited client call can settle.
ClientResults(h, slug) ==
    {[t |-> "resolve", value |-> r] : r \in Responses(h, slug)}
    \cup {[t |-> "reject", value |-> e] : e \in Exceptions}

----------------------------------------------------------------------------
(* fetchPersistedQuery *)

\* response?.data
ResponseData(response) ==
    IF IsNullish(response) THEN Undefined ELSE response.data

\* e.toJSON()?.message, for an e that has a toJSON method
ExceptionMessage(e) ==
    IF IsNullish(e.json) THEN Undefined ELSE e.json.message

\* fetchPersistedQuery falling back to a default message when the exception
\* has none.
fetchPersistedQuery_DefaultMessage(r) ==
    IF r.t = "resolve"
    THEN [t |-> "return", data |-> ResponseData(r.value), err |-> Undefined]
    ELSE IF r.value.hasToJSON
         THEN [t |-> "return", data |-> Undefined,
               err |-> IF Truthy(ExceptionMessage(r.value))
                       THEN ExceptionMessage(r.value)
                       ELSE Str("Unknown error")]
         ELSE [t |-> "throw"]

\* The settlement of fetchPersistedQuery's promise for a settlement r of the
\* client call: it returns {data, err}, or the catch block itself throws
\* (e.toJSON is not a function) and the promise rejects.
fetchPersistedQuery(r) ==
    IF r.t = "resolve"
    THEN [t |-> "return", data |-> ResponseData(r.value), err |-> Undefined]
    ELSE IF r.value.hasToJSON
         THEN [t |-> "return", data |-> Undefined, err |-> ExceptionMessage(r.value)]
         ELSE [t |-> "throw"]

----------------------------------------------------------------------------
(* The hooks *)

\* useState(null) for data, references and error.  useArticleBySlug and
\* useArticles have no references state; their references slot stays null.
InitialState == [data |-> Null, references |-> Null, error |-> Null]

\* The template literals of the not-found branches.
NotFoundMessage(h, slug) ==
    IF h = "page" THEN Str("Cannot find Page with slug: " \o slug)
    ELSE IF h = "article" THEN Str("Cannot find Article with slug: " \o slug)
    ELSE Str("Cannot find Articles")

\* QueryVariables with useArticleBySlug forwarding the variation as well.
QueryVariables_ArticleVariation(h, slug, variation) ==
    IF h \in {"page", "article"}
    THEN [slug |-> Str(slug),
          variation |-> IF Truthy(variation) THEN variation ELSE Undefined]
    ELSE [slug |-> Undefined, variation |-> Undefined]

\* The query variables fetchData sends: usePageBySlug copies a truthy
\* "variation" of the query string, both slug hooks add the slug, useArticles
\* sends none.
QueryVariables(h, slug, variation) ==
    IF h = "page"
    THEN [slug |-> Str(slug),
          variation |-> IF Truthy(variation) THEN variation ELSE Undefined]
    ELSE IF h = "article"
    THEN [slug |-> Str(slug), variation |-> Undefined]
    ELSE [slug |-> Undefined, variation |-> Undefined]

\* response?.data?.<kind>List (pageList, articleList, articlePaginated)
ListOf(response) ==
    IF IsNullish(response.data) THEN Undefined ELSE response.data.list

\* <list>?.items?.length, -1 standing for undefined
ItemsLength(list) ==
    IF IsNullish(list) THEN -1
    ELSE IF IsNullish(list.items) THEN -1
    ELSE Len(list.items.v)

\* <list>?.edges?.length, -1 standing for undefined
EdgesLength(list) ==
    IF IsNullish(list) THEN -1
    ELSE IF IsNullish(list.edges) THEN -1
    ELSE Len(list.edges.v)

\* usePageBySlug with the cardinality check loosened to "at least one item".
usePageBySlug_AtLeastOne(st, slug, response) ==
    IF Truthy(response.err)
    THEN [st EXCEPT !.error = response.err]
    ELSE IF ItemsLength(ListOf(response)) >= 1
    THEN [st EXCEPT !.data = ListOf(response).items.v[1],
                    !.references = ListOf(response)._references]
    ELSE [st EXCEPT !.error = NotFoundMessage("page", slug)]

\* usePageBySlug calling setReferences only when the response has references.
usePageBySlug_KeepReferences(st, slug, response) ==
    IF Truthy(response.err)
    THEN [st EXCEPT !.error = response.err]
    ELSE IF ItemsLength(ListOf(response)) = 1
    THEN [st EXCEPT !.data = ListOf(response).items.v[1],
                    !.references = IF Truthy(ListOf(response)._references)
                                   THEN ListOf(response)._references
                                   ELSE @]
    ELSE [st EXCEPT !.error = NotFoundMessage("page", slug)]

\* usePageBySlug, fetchData after its await: the setters it calls on the
\* state st, for the slug the effect closed over and the returned response.
usePageBySlug(st, slug, response) ==
    IF Truthy(response.err)
    THEN [st EXCEPT !.error = response.err]
    ELSE IF ItemsLength(ListOf(response)) = 1
    THEN [st EXCEPT !.data = ListOf(response).items.v[1],
                    !.references = ListOf(response)._references]
    ELSE [st EXCEPT !.error = NotFoundMessage("page", slug)]

\* useArticleBySlug, fetchData after its await.
useArticleBySlug(st, slug, response) ==
    IF Truthy(response.err)
    THEN [st EXCEPT !.error = response.err]
    ELSE IF ItemsLength(ListOf(response)) = 1
    THEN [st EXCEPT !.data = ListOf(response).items.v[1]]
    ELSE [st EXCEPT !.error = NotFoundMessage("article", slug)]

\* useArticles storing the first edge instead of the edges array.
useArticles_FirstEdge(st, response) ==
    IF Truthy(response.err)
    THEN [st EXCEPT !.error = response.err]
    ELSE IF EdgesLength(ListOf(response)) > 0
    THEN [st EXCEPT !.data = ListOf(response).edges.v[1]]
    ELSE [st EXCEPT !.error = NotFoundMessage("articles", NoSlug)]

\* useArticles, fetchData after its await.
useArticles(st, response) ==
    IF Truthy(response.err)
    THEN [st EXCEPT !.error = response.err]
    ELSE IF EdgesLength(ListOf(response)) > 0
    THEN [st EXCEPT !.data = ListOf(response).edges]
    ELSE [st EXCEPT !.error = NotFoundMessage("articles", NoSlug)]

\* The state of hook h after a fetchData started for slug commits response.
Commit(h, st, slug, response) ==
    IF h = "page" THEN usePageBySlug(st, slug, response)
    ELSE IF h = "article" THEN useArticleBySlug(st, slug, response)
    ELSE useArticles(st, response)

----------------------------------------------------------------------------
(* The Text component *)

\* The props before the component has rendered.
NotRendered == [t |-> "none"]

\* Values of children: not passed, an empty string, a text.
Childrens == {Undefined, Str(""), Str("Hello")}

\* Values of content: not passed, null, or a content fragment whose
\* plaintext and html are each absent, empty or filled.
Contents ==
    {Undefined, Null}
    \cup {[t |-> "object", plaintext |-> pt, html |-> ht] :
            pt \in {Undefined, Str(""), Str("plain")},
            ht \in {Undefined, Str(""), Str("<b>x</b>")}}

\* Values of prop and className.
PropNames == {Undefined, Str("title"), Str("body")}

ClassNames == {Undefined, Str("teaser")}

\* The props a caller can render Text with.
TextProps ==
    {[t |-> "props", children |-> c, content |-> ct, prop |-> p, className |-> cn] :
        c \in Childrens, ct \in Contents, p \in PropNames, cn \in ClassNames}

\* content?.plaintext and content?.html
Plaintext(content) == IF IsNullish(content) THEN Undefined ELSE content.plaintext

Html(content) == IF IsNullish(content) THEN Undefined ELSE content.html

\* a || b
Or(a, b) == IF Truthy(a) THEN a ELSE b

\* The div element: its data-aue-prop, data-aue-type and className
\* attributes, its children and its dangerouslySetInnerHTML.__html.
Div(aueProp, aueType, className, children, html) ==
    [t |-> "div", aueProp |-> aueProp, aueType |-> aueType,
     className |-> className, children |-> children, html |-> html]

\* Text testing content.html before the plain-text sources.
Text_HtmlFirst(p) ==
    IF Truthy(Html(p.content))
    THEN Div(p.prop, "richtext", p.className, Undefined, Html(p.content))
    ELSE IF Truthy(Or(p.children, Plaintext(p.content)))
    THEN Div(p.prop, "text", p.className,
             Or(p.children, Plaintext(p.content)), Undefined)
    ELSE Null

\* Text with the rich-text branch carrying the plain-text branch's type tag.
Text_SameType(p) ==
    IF Truthy(Or(p.children, Plaintext(p.content)))
    THEN Div(p.prop, "text", p.className,
             Or(p.children, Plaintext(p.content)), Undefined)
    ELSE IF Truthy(Html(p.content))
    THEN Div(p.prop, "text", p.className, Undefined, Html(p.content))
    ELSE Null

\* Text: the element the component returns for props p, or null.
Text(p) ==
    IF Truthy(Or(p.children, Plaintext(p.content)))
    THEN Div(p.prop, "text", p.className,
             Or(p.children, Plaintext(p.content)), Undefined)
    ELSE IF Truthy(Html(p.content))
    THEN Div(p.prop, "richtext", p.className, Undefined, Html(p.content))
    ELSE Null

----------------------------------------------------------------------------
(* State *)

\* A fetch cycle: one fetchData() call.  pc is where it stands: "client"
\* (runPersistedQuery in flight), "response" (the client call has settled
\* and fetchPersistedQuery has returned, fetchData has not resumed yet),
\* "done" (fetchData has resumed and called its setters), "rejected"
\* (fetchPersistedQuery threw, so fetchData's promise rejected and no setter
\* is ever called).  client is the settlement of the client call and
\* response the {data, err} fetchPersistedQuery returned, both held until
\* fetchData has used them.  overlapped records whether an earlier fetch of
\* the hook had not yet called its setters when this one started.
NewFetch(h, slug) ==
    [slugName |-> slug,
     queryVariables |-> QueryVariables(h, slug, search),
     pc |-> "client",
     client |-> [t |-> "pending"],
     response |-> [t |-> "pending"],
     overlapped |-> \E i \in DOMAIN fetches[h] :
                        fetches[h][i].pc \in {"client", "response"}]

\* Number of runPersistedQuery calls made so far.
TotalCalls == Len(fetches["page"]) + Len(fetches["article"]) + Len(fetches["articles"])

Init ==
    /\ mounted = [h \in Hooks |-> FALSE]
    /\ slugName = [h \in Hooks |-> NoSlug]
    /\ state = [h \in Hooks |-> InitialState]
    /\ fetches = [h \in Hooks |-> <<>>]
    /\ continuations = <<>>
    /\ search \in Variations
    /\ last = [op |-> "init"]
    /\ slugChanges = [h \in Hooks |-> 0]
    /\ props = NotRendered
    /\ rendered = Null

\* The component using hook h mounts with slug s: first render with the
\* initial state, then the effect runs and calls fetchData().
Mount(h, s) ==
    /\ ~mounted[h]
    /\ mounted' = [mounted EXCEPT ![h] = TRUE]
    /\ slugName' = [slugName EXCEPT ![h] = s]
    /\ state' = [state EXCEPT ![h] = InitialState]
    /\ fetches' = [fetches EXCEPT ![h] = <<NewFetch(h, s)>>]
    /\ last' = [op |-> "mount", hook |-> h, before |-> state[h]]
    /\ UNCHANGED <<continuations, search, slugChanges, textVars>>

\* SlugChange with the effect resetting the result before it fetches.
SlugChange_Reset(h, s) ==
    /\ mounted[h]
    /\ s # slugName[h]
    /\ slugName' = [slugName EXCEPT ![h] = s]
    /\ state' = [state EXCEPT ![h] = InitialState]
    /\ fetches' = [fetches EXCEPT ![h] = Append(@, NewFetch(h, s))]
    /\ last' = [op |-> "slug", hook |-> h, before |-> state[h]]
    /\ slugChanges' = [slugChanges EXCEPT ![h] = @ + 1]
    /\ UNCHANGED <<mounted, continuations, search, textVars>>

\* The slug hook h is re-rendered with another slug: the effect's dependency
\* [slugName] changed, so it runs again and calls fetchData().  Nothing else
\* is written.
SlugChange(h, s) ==
    /\ mounted[h]
    /\ s # slugName[h]
    /\ slugName' = [slugName EXCEPT ![h] = s]
    /\ fetches' = [fetches EXCEPT ![h] = Append(@, NewFetch(h, s))]
    /\ last' = [op |-> "slug", hook |-> h, before |-> state[h]]
    /\ slugChanges' = [slugChanges EXCEPT ![h] = @ + 1]
    /\ UNCHANGED <<mounted, state, continuations, search, textVars>>

\* The client call of fetch i of hook h settles with r and
\* fetchPersistedQuery resumes: it returns {data, err}, which queues the
\* continuation of the fetchData awaiting it, or its catch block throws and
\* fetchData's promise rejects.  No setter is called in this step.
ClientSettle(h, i, r) ==
    /\ fetches[h][i].pc = "client"
    /\ fetches' = [fetches EXCEPT
          ![h][i].client = r,
          ![h][i].response = fetchPersistedQuery(r),
          ![h][i].pc = IF fetchPersistedQuery(r).t = "throw"
                       THEN "rejected" ELSE "response"]
    /\ continuations' = IF fetchPersistedQuery(r).t = "throw"
                        THEN continuations
                        ELSE Append(continuations, <<h, i>>)
    /\ last' = [op |-> "settle", hook |-> h, id |-> i, client |-> r]
    /\ UNCHANGED <<mounted, slugName, state, search, slugChanges, textVars>>

\* FetchDataResume with one error state shared by every hook instance.
FetchDataResume_SharedError(h, i) ==
    /\ continuations # <<>>
    /\ Head(continuations) = <<h, i>>
    /\ continuations' = Tail(continuations)
    /\ state' = [g \in Hooks |->
          IF g = h
          THEN Commit(h, state[h], fetches[h][i].slugName, fetches[h][i].response)
          ELSE [state[g] EXCEPT !.error =
                  Commit(h, state[h], fetches[h][i].slugName,
                         fetches[h][i].response).error]]
    /\ fetches' = [fetches EXCEPT ![h][i].pc = "done",
                                  ![h][i].client = [t |-> "used"],
                                  ![h][i].response = [t |-> "used"]]
    /\ last' = [op |-> "commit", hook |-> h, id |-> i,
                client |-> fetches[h][i].client, before |-> state[h]]
    /\ UNCHANGED <<mounted, slugName, search, slugChanges, textVars>>

\* FetchDataResume with a retry: a transport failure starts the query again.
FetchDataResume_Retry(h, i) ==
    /\ continuations # <<>>
    /\ Head(continuations) = <<h, i>>
    /\ continuations' = Tail(continuations)
    /\ state' = [state EXCEPT ![h] =
          Commit(h, @, fetches[h][i].slugName, fetches[h][i].response)]
    /\ fetches' = [fetches EXCEPT ![h] =
          IF fetches[h][i].client.t = "reject" /\ TotalCalls < MaxCalls
          THEN Append([@ EXCEPT ![i].pc = "done",
                                ![i].client = [t |-> "used"],
                                ![i].response = [t |-> "used"]],
                      NewFetch(h, fetches[h][i].slugName))
          ELSE [@ EXCEPT ![i].pc = "done",
                         ![i].client = [t |-> "used"],
                         ![i].response = [t |-> "used"]]]
    /\ last' = [op |-> "commit", hook |-> h, id |-> i,
                client |-> fetches[h][i].client, before |-> state[h]]
    /\ UNCHANGED <<mounted, slugName, search, slugChanges, textVars>>

\* fetchData of fetch i of hook h resumes after its await (line 85) with the
\* response fetchPersistedQuery returned and calls its setters.  The
\* continuations of the fetchData calls run in the order in which their
\* fetchPersistedQuery calls returned.
FetchDataResume(h, i) ==
    /\ continuations # <<>>
    /\ Head(continuations) = <<h, i>>
    /\ continuations' = Tail(continuations)
    /\ state' = [state EXCEPT ![h] =
          Commit(h, @, fetches[h][i].slugName, fetches[h][i].response)]
    /\ fetches' = [fetches EXCEPT ![h][i].pc = "done",
                                  ![h][i].client = [t |-> "used"],
                                  ![h][i].response = [t |-> "used"]]
    /\ last' = [op |-> "commit", hook |-> h, id |-> i,
                client |-> fetches[h][i].client, before |-> state[h]]
    /\ UNCHANGED <<mounted, slugName, search, slugChanges, textVars>>

\* The components of a page mount and re-render, and their fetches proceed,
\* in any order; the page makes at most MaxCalls calls.
Next ==
    \/ \E h \in SlugHooks, s \in Slugs : TotalCalls < MaxCalls /\ Mount(h, s)
    \/ TotalCalls < MaxCalls /\ Mount("articles", NoSlug)
    \/ \E h \in SlugHooks, s \in Slugs : TotalCalls < MaxCalls /\ SlugChange(h, s)
    \/ \E h \in Hooks : \E i \in DOMAIN fetches[h] :
          \E r \in ClientResults(h, fetches[h][i].slugName) : ClientSettle(h, i, r)
    \/ \E h \in Hooks : \E i \in DOMAIN fetches[h] : FetchDataResume(h, i)

Spec == Init /\ [][Next]_vars

\* A page with one slug hook instance alone, followed through up to
\* MaxCycles fetch cycles.
NextSingle ==
    \/ \E h \in SlugHooks, s \in Slugs :
          /\ \A g \in Hooks : ~mounted[g]
          /\ Mount(h, s)
    \/ \E h \in SlugHooks, s \in Slugs :
          /\ Len(fetches[h]) < MaxCycles
          /\ SlugChange(h, s)
    \/ \E h \in SlugHooks : \E i \in DOMAIN fetches[h] :
          \E r \in ClientResults(h, fetches[h][i].slugName) : ClientSettle(h, i, r)
    \/ \E h \in SlugHooks : \E i \in DOMAIN fetches[h] : FetchDataResume(h, i)

SpecSingle == Init /\ [][NextSingle]_vars

\* Text is rendered with props p.
TextRender(p) ==
    /\ props' = p
    /\ rendered' = Text(p)
    /\ UNCHANGED hookVars

\* The Text component alone, rendered with any props, beside hooks that
\* are not mounted.
InitText ==
    /\ Init
    /\ search = Null

NextText == \E p \in TextProps : TextRender(p)

SpecText == InitText /\ [][NextText]_vars

----------------------------------------------------------------------------
(* Vocabulary of the properties *)

\* The last step was the completion of a fetch of hook h: its fetchData
\* resumed and called its setters.
Completed(h) == last.op = "commit" /\ last.hook = h

\* The fetch the last step settled or completed.
SettledFetch == fetches[last.hook][last.id]

\* Every fetch of hook h has called its setters.
AllDone(h) == \A i \in DOMAIN fetches[h] : fetches[h][i].pc = "done"

\* The states a fetch for slug, committed on a fresh result, can produce.
ProducedBy(h, slug) ==
    {Commit(h, InitialState, slug, fetchPersistedQuery(r)) :
        r \in {x \in ClientResults(h, slug) : fetchPersistedQuery(x).t = "return"}}

\* The client resolved with a payload whose list field is present.
HasList(r) ==
    /\ r.t = "resolve"
    /\ r.value # Undefined
    /\ r.value.data # Undefined
    /\ r.value.data.list # Undefined

\* The client resolved with a <kind>List whose items has exactly one record.
OneItem(r) ==
    /\ HasList(r)
    /\ r.value.data.list.items # Undefined
    /\ Len(r.value.data.list.items.v) = 1

\* The client resolved with an articlePaginated whose edges is non-empty.
SomeEdges(r) ==
    /\ HasList(r)
    /\ r.value.data.list.edges # Undefined
    /\ Len(r.value.data.list.edges.v) >= 1

\* The client threw an exception whose toJSON() carries a string message.
ThrewMessage(r) ==
    /\ r.t = "reject"
    /\ r.value.hasToJSON
    /\ r.value.json # Null
    /\ r.value.json.message # Undefined

----------------------------------------------------------------------------
(* Properties *)

\* C1: if the slug of a slug hook changes from A to B while A's fetch is in
\* flight, then once both fetches have committed, the visible state is one
\* that B's fetch produces.
C1_LastRequestWins ==
    \A h \in SlugHooks :
        (/\ Len(fetches[h]) = 2
         /\ fetches[h][2].overlapped
         /\ AllDone(h))
        => state[h] \in ProducedBy(h, slugName[h])

\* C2: no hook instance ever shows a populated data together with a
\* non-empty error.
C2_NeverDataAndError ==
    \A h \in Hooks : ~(state[h].data # Null /\ Truthy(state[h].error))

\* C3: right after a slug change the result is Pending again: data,
\* references and error are null (and a new fetch is in flight).
C3_SlugChangeResets ==
    last.op = "slug" =>
        /\ state[last.hook] = InitialState
        /\ fetches[last.hook][Len(fetches[last.hook])].pc = "client"

\* C4: when a slug hook's query succeeds with exactly one item, the hook is
\* Resolved: data is items[0], references (page) is pageList._references and
\* error is unset.
C4_OneItemResolves ==
    \A h \in SlugHooks :
        (Completed(h) /\ OneItem(last.client)) =>
            /\ state[h].data = last.client.value.data.list.items.v[1]
            /\ (h = "page" =>
                  state[h].references = last.client.value.data.list._references)
            /\ state[h].error = Null

\* C5: when a slug hook's query succeeds without exactly one item (items
\* absent, empty or two or more), error becomes "Cannot find <Kind> with
\* slug: <slug>" for the slug the fetch was started for, and that fetch
\* leaves data (and references) as they were.
C5_NotFoundNamesSlug ==
    \A h \in SlugHooks :
        (Completed(h) /\ last.client.t = "resolve" /\ ~OneItem(last.client)) =>
            /\ state[h].error =
                 Str((IF h = "page" THEN "Cannot find Page with slug: "
                                    ELSE "Cannot find Article with slug: ")
                     \o SettledFetch.slugName)
            /\ state[h].data = last.before.data
            /\ state[h].references = last.before.references

\* C5 witness: a stale fetch (its slug is no longer the current one) of a hook
\* that already shows data came back with two items.
C5_Witness ==
    /\ Completed("page")
    /\ last.client.t = "resolve"
    /\ HasList(last.client)
    /\ last.client.value.data.list.items = Arr(<<Item("a", 1), Item("a", 2)>>)
    /\ slugName["page"] = "b"
    /\ last.before.data = Item("b", 1)
    /\ state["page"].error = Str("Cannot find Page with slug: a")

\* C6: whenever the client throws, the hook's error becomes the exception's
\* message, whatever that message is.
C6_TransportErrorMessage ==
    \A h \in Hooks :
        (Completed(h) /\ ThrewMessage(last.client)) =>
            state[h].error = last.client.value.json.message

\* C7: fetchPersistedQuery returns a {data, err} value for every settlement
\* of the client call; it never throws.
C7_NeverThrows ==
    last.op = "settle" =>
        /\ fetchPersistedQuery(last.client).t = "return"
        /\ SettledFetch.pc # "rejected"

\* C8: every value fetchPersistedQuery returns has exactly one of data and
\* err populated.
C8_ExactlyOneOfDataErr ==
    (last.op = "settle" /\ fetchPersistedQuery(last.client).t = "return") =>
        (fetchPersistedQuery(last.client).data # Undefined)
            # (fetchPersistedQuery(last.client).err # Undefined)

\* C9: useArticles shows the edges array as delivered when the query succeeds
\* with a non-empty edges, and otherwise the error "Cannot find Articles"
\* with data still unset.
C9_ArticlesEdges ==
    (Completed("articles") /\ last.client.t = "resolve") =>
        IF SomeEdges(last.client)
        THEN /\ state["articles"].data = last.client.value.data.list.edges
             /\ state["articles"].error = Null
        ELSE /\ state["articles"].error = Str("Cannot find Articles")
             /\ state["articles"].data = Null

\* C9 witness: a list of two edges was delivered and is shown in its order.
C9_Witness ==
    /\ Completed("articles")
    /\ last.client.t = "resolve"
    /\ SomeEdges(last.client)
    /\ state["articles"].data = Arr(<<Edge(2), Edge(1)>>)

\* C10: once the fetch for the current slug has committed (the hook is
\* Resolved or Errored), the completion of another fetch does not change the
\* visible state while the slug stays the same.
C10_TerminalUntilSlugChange ==
    \A h \in SlugHooks :
        (/\ Completed(h)
         /\ last.id < Len(fetches[h])
         /\ fetches[h][Len(fetches[h])].pc = "done")
        => state[h] = last.before

\* C11: the number of runPersistedQuery calls a hook instance has made is
\* one per mount plus one per slug change (useArticles: one per mount);
\* no settlement, failed or not, adds a call.
C11_OneCallPerCycle ==
    /\ \A h \in Hooks :
          Len(fetches[h]) = (IF mounted[h] THEN 1 ELSE 0) + slugChanges[h]
    /\ Len(fetches["articles"]) = (IF mounted["articles"] THEN 1 ELSE 0)

\* C11 witness: a fetch of the page hook has just failed with a transport
\* error after one slug change, and the hook has made two calls.
C11_Witness ==
    /\ Completed("page")
    /\ ThrewMessage(last.client)
    /\ state["page"].error = Str("Network Error")
    /\ slugChanges["page"] = 1
    /\ Len(fetches["page"]) = 2

\* C12: a slug hook goes through slug A, then B, then A again, and A's
\* payload is the same one-match payload both times (the third fetch
\* delivers the item, and references, that the first one committed).  After
\* the third fetch the hook is Resolved with that data and no error,
\* whatever B's fetch did.
C12_RepeatIsIdentical ==
    \A h \in SlugHooks :
        (/\ Completed(h)
         /\ last.id = 3
         /\ OneItem(last.client)
         /\ fetches[h][1].slugName = fetches[h][3].slugName
         /\ fetches[h][1].pc = "done"
         /\ fetches[h][2].pc \in {"done", "rejected"}
         /\ last.before.data = last.client.value.data.list.items.v[1]
         /\ (h = "page" =>
               last.before.references = last.client.value.data.list._references))
        => /\ state[h].data = last.client.value.data.list.items.v[1]
           /\ state[h].references = last.before.references
           /\ state[h].error = Null

----------------------------------------------------------------------------
(* Properties of the Text component *)

\* Text has rendered with some props.
Rendered == props # NotRendered

\* A value that was passed: neither undefined nor null.
Supplied(v) == v # Undefined /\ v # Null

\* A value that was passed and is not the empty string.
NonEmpty(v) == Supplied(v) /\ v # Str("")

\* The plaintext and html of the props' content, undefined without content.
PropsPlaintext ==
    IF Supplied(props.content) THEN props.content.plaintext ELSE Undefined

PropsHtml ==
    IF Supplied(props.content) THEN props.content.html ELSE Undefined

\* The plain-text fragment showing text v, and the rich-text fragment with
\* markup v, for the current props.
PlainFragment(v) ==
    [t |-> "div", aueProp |-> props.prop, aueType |-> "text",
     className |-> props.className, children |-> v, html |-> Undefined]

RichFragment(v) ==
    [t |-> "div", aueProp |-> props.prop, aueType |-> "richtext",
     className |-> props.className, children |-> Undefined, html |-> v]

\* C13 as stated: children if supplied, else content.plaintext if present
\* and non-empty, else content.html if present, else null.
C13_Precedence ==
    Rendered =>
        rendered =
            IF Supplied(props.children) THEN PlainFragment(props.children)
            ELSE IF NonEmpty(PropsPlaintext) THEN PlainFragment(PropsPlaintext)
            ELSE IF Supplied(PropsHtml) THEN RichFragment(PropsHtml)
            ELSE Null

\* C13 amended: children if supplied and non-empty, else content.plaintext
\* if present and non-empty, else content.html if present and non-empty,
\* else null; a lower source is never rendered when a higher one qualifies.
C13_PrecedenceNonEmpty ==
    Rendered =>
        rendered =
            IF NonEmpty(props.children) THEN PlainFragment(props.children)
            ELSE IF NonEmpty(PropsPlaintext) THEN PlainFragment(PropsPlaintext)
            ELSE IF NonEmpty(PropsHtml) THEN RichFragment(PropsHtml)
            ELSE Null

\* C13 witness: children is the empty string and both plaintext and html are
\* filled; the plaintext is what is rendered.
C13_Witness ==
    /\ Rendered
    /\ props.children = Str("")
    /\ PropsPlaintext = Str("plain")
    /\ PropsHtml = Str("<b>x</b>")
    /\ rendered # Null
    /\ rendered.children = Str("plain")
    /\ rendered.html = Undefined

\* C14: a rendered fragment carries the caller's prop as data-aue-prop and
\* the type tag of its path: "text" with text children and no markup,
\* "richtext" with markup and no children.  Non-empty text (children or
\* plaintext) gives a fragment tagged "text", non-empty html without them
\* one tagged "richtext", and none of them gives null.
C14_EditorMetadata ==
    Rendered =>
        /\ rendered # Null =>
              /\ rendered.aueProp = props.prop
              /\ \/ /\ rendered.aueType = "text"
                    /\ rendered.children # Undefined
                    /\ rendered.html = Undefined
                 \/ /\ rendered.aueType = "richtext"
                    /\ rendered.children = Undefined
                    /\ rendered.html # Undefined
        /\ (NonEmpty(props.children) \/ NonEmpty(PropsPlaintext)) =>
              (rendered # Null /\ rendered.aueType = "text")
        /\ (/\ ~NonEmpty(props.children)
            /\ ~NonEmpty(PropsPlaintext)
            /\ NonEmpty(PropsHtml)) =>
              (rendered # Null /\ rendered.aueType = "richtext")
        /\ (/\ ~NonEmpty(props.children)
            /\ ~NonEmpty(PropsPlaintext)
            /\ ~NonEmpty(PropsHtml)) => rendered = Null

\* C14 witness: content {html: "<b>x</b>"} rendered for prop "body".
C14_Witness ==
    /\ Rendered
    /\ props.children = Undefined
    /\ PropsHtml = Str("<b>x</b>")
    /\ props.prop = Str("body")
    /\ rendered # Null
    /\ rendered.aueProp = Str("body")
    /\ rendered.aueType = "richtext"
    /\ rendered.html = Str("<b>x</b>")

----------------------------------------------------------------------------
(* Further properties of the hooks *)

\* C15: every query of usePageBySlug was sent {slug} for the slug its fetch
\* cycle was started for, plus variation exactly when the query string has
\* a non-empty variation; every query of useArticleBySlug was sent {slug}
\* only; the query of useArticles was sent no variables.  The newest fetch
\* of a slug hook carries the hook's current slug.
C15_QueryVariables ==
    \A h \in Hooks : \A i \in DOMAIN fetches[h] :
        /\ fetches[h][i].queryVariables.slug =
             (IF h = "articles" THEN Undefined ELSE Str(fetches[h][i].slugName))
        /\ fetches[h][i].queryVariables.variation =
             (IF h = "page" /\ search # Null /\ search # Str("")
              THEN search ELSE Undefined)
        /\ DOMAIN fetches[h][i].queryVariables = {"slug", "variation"}
        /\ (i = Len(fetches[h]) => fetches[h][i].slugName = slugName[h])

\* C15 witness: with ?variation=mobile, the page hook has queried for "b"
\* with the variation, and the article hook has queried for "a" with the
\* slug alone.
C15_Witness ==
    /\ search = Str("mobile")
    /\ Len(fetches["page"]) = 1
    /\ fetches["page"][1].queryVariables =
          [slug |-> Str("b"), variation |-> Str("mobile")]
    /\ Len(fetches["article"]) = 1
    /\ fetches["article"][1].queryVariables =
          [slug |-> Str("a"), variation |-> Undefined]

\* The settlement r is a failure for hook h: the client threw, or the
\* payload has no single item (slug hooks) or no edge (useArticles).
Failed(h, r) ==
    \/ r.t = "reject"
    \/ h \in SlugHooks /\ ~OneItem(r)
    \/ h = "articles" /\ ~SomeEdges(r)

\* C16: the steps in which a fetch of one hook instance fails (its client
\* call settling with a failure, and its fetchData resuming on it) leave the
\* result, the fetch cycles, the slug and the mount state of every other
\* hook instance as they were.
C16_FailureIsConfined ==
    [][(last'.op \in {"settle", "commit"}
        /\ Failed(last'.hook, last'.client)) =>
          \A g \in Hooks \ {last'.hook} :
              /\ state'[g] = state[g]
              /\ fetches'[g] = fetches[g]
              /\ slugName'[g] = slugName[g]
              /\ mounted'[g] = mounted[g]]_vars

\* C16 witness: a fetch of the page hook has just failed and set its error
\* while the fetch of the article hook, whose client call has settled as
\* well, is still waiting to resume and the article hook is Pending.
C16_Witness ==
    /\ Completed("page")
    /\ Failed("page", last.client)
    /\ state["page"].error # Null
    /\ fetches["article"] # <<>>
    /\ fetches["article"][1].pc = "response"
    /\ state["article"] = InitialState

\* C17: a fetch cycle whose client call has settled commits a terminal
\* state.  Between the settlement and the setters the fetch waits in the
\* queue of continuations, which always runs; so in every state a settled
\* fetch either has its continuation queued, or has called its setters and
\* the hook is Resolved or Errored, no longer Pending.  A settled fetch that
\* is in neither case never commits.
C17_SettledCommits ==
    \A h \in Hooks : \A i \in DOMAIN fetches[h] :
        fetches[h][i].pc # "client" =>
            \/ /\ fetches[h][i].pc = "response"
               /\ \E k \in DOMAIN continuations : continuations[k] = <<h, i>>
            \/ /\ fetches[h][i].pc = "done"
               /\ (state[h].data # Null \/ state[h].error # Null)

\* C18: no step of a hook instance takes error, or data, from a non-null
\* value back to null: a populated error stays a string and a populated data
\* stays a content value, through slug changes, successes and failures.
C18_NoFieldCleared ==
    last.op \in {"mount", "slug", "commit"} =>
        /\ last.before.error # Null =>
              state[last.hook].error.t = "string"
        /\ last.before.data # Null =>
              state[last.hook].data.t \in {"object", "array"}

\* C18 witness: an error set by an earlier cycle of the page hook is still
\* there after a slug change and a fetch that resolved with one item.
C18_Witness ==
    /\ Completed("page")
    /\ OneItem(last.client)
    /\ slugChanges["page"] >= 1
    /\ last.before.error # Null
    /\ state["page"].error = last.before.error
    /\ state["page"].data # Null

\* C19: a completed fetch of usePageBySlug writes one side of the result.
\* On a failure error is set and data and references stay as they were; on
\* a single item data and references are both taken from that response and
\* error stays as it was.  So references is populated only with data, and
\* the two always belong to the same response.
C19_OneSidePerCompletion ==
    /\ (Completed("page") /\ SettledFetch.pc = "done") =>
          IF OneItem(last.client)
          THEN /\ state["page"].data = last.client.value.data.list.items.v[1]
               /\ state["page"].references =
                     last.client.value.data.list._references
               /\ state["page"].error = last.before.error
          ELSE /\ state["page"].error # Null
               /\ state["page"].data = last.before.data
               /\ state["page"].references = last.before.references
    /\ state["page"].references # Null => state["page"].data # Null
    /\ state["page"].data # Null =>
          state["page"].references \in
              {Undefined, References(state["page"].data.slug)}

\* C19 witness: the page hook showed a's item with a's references, and a
\* fetch for b that delivered one item without references replaced both.
C19_Witness ==
    /\ Completed("page")
    /\ OneItem(last.client)
    /\ last.before.data = Item("a", 1)
    /\ last.before.references = References("a")
    /\ state["page"].data = Item("b", 1)
    /\ state["page"].references = Undefined

\* The settlement r gives fetchPersistedQuery neither a truthy err nor a
\* payload: an exception whose toJSON() has no message or an empty one, or a
\* response without a data field.
NoErrNoPayload(r) ==
    \/ /\ r.t = "reject"
       /\ r.value.hasToJSON
       /\ \/ r.value.json = Null
          \/ r.value.json.message = Undefined
          \/ r.value.json.message = Str("")
    \/ /\ r.t = "resolve"
       /\ \/ r.value = Undefined
          \/ r.value.data = Undefined

\* C20: a settlement that yields neither a truthy err nor a payload makes
\* the hook Errored with its own not-found template, not with a transport
\* message.
C20_EmptyOutcomeIsNotFound ==
    \A h \in Hooks :
        (Completed(h) /\ NoErrNoPayload(last.client)) =>
            state[h].error =
                (IF h = "page"
                 THEN Str("Cannot find Page with slug: " \o SettledFetch.slugName)
                 ELSE IF h = "article"
                 THEN Str("Cannot find Article with slug: " \o SettledFetch.slugName)
                 ELSE Str("Cannot find Articles"))

\* C20 witness: the client threw an exception with an empty message for the
\* article hook's fetch for "b", and the hook reports that b was not found.
C20_Witness ==
    /\ Completed("article")
    /\ last.client.t = "reject"
    /\ last.client.value.hasToJSON
    /\ last.client.value.json # Null
    /\ last.client.value.json.message = Str("")
    /\ SettledFetch.slugName = "b"
    /\ state["article"].error = Str("Cannot find Article with slug: b")

====
